---- MODULE Spec2Model ----
(***************************************************************************)
(* A model of the chunking, embedding and retrieval core of Rag-Intro:     *)
(*   src/src/embedding/embeddings.py     split_text,                       *)
(*                                       process_documents_for_embedding   *)
(*   src/src/retrieval/document_store.py DocumentRetriever                 *)
(*   src/src/ui/models/retriever.py      initialize_source_retriever       *)
(*   src/src/retrieval/response_generator.py generate_response             *)
(*   src/app.py                          ask_question                      *)
(*                                                                         *)
(* SpecSplit runs the loop of split_text one iteration per step, from      *)
(* every text and every (chunk_size, chunk_overlap) within the bounds.     *)
(* Spec runs ingestions and queries against the persistent collection.     *)
(* SpecSession runs a Streamlit session: sources selected and cleared,     *)
(* questions asked. SpecConc interleaves the collection calls of           *)
(* add_documents and query_documents made by different callers.            *)
(***************************************************************************)
EXTENDS Integers, Sequences, FiniteSets, TLC

VARIABLES
    text,           \* split_text: the argument text
    chunk_size,     \* split_text: the argument chunk_size
    chunk_overlap,  \* split_text: the argument chunk_overlap
    chunks,         \* split_text: the local list chunks
    start,          \* split_text: the local cursor start
    pc,             \* split_text: "loop" (at the while test) or "return"
    collection,     \* the Chroma collection: a sequence of [id, text, embedding]
    last,           \* what the last call did and returned to its caller
    active_source,  \* st.session_state.active_source: a source id, or "none"
    retriever,      \* st.session_state.retriever: "retriever", or "none"
    deleted,        \* the ids of the sources whose files were deleted
    writers,        \* concurrent add_documents calls: each caller's position
    reader,         \* a concurrent query_documents call: its position
    lastWrite,      \* per chunk id, the record of the last completed upsert
    clock,          \* datetime.now(), in seconds
    cache_data,     \* the st.cache_data entries of scan_knowledge_sources
    knowledge_cache,    \* st.session_state.knowledge_cache
    last_cache_update,  \* st.session_state.last_cache_update, -1 for None
    collections_index,  \* the collections of collections_index.json
    messages,       \* st.session_state.messages
    streaming,      \* st.session_state.streaming
    stream_container,   \* st.session_state.stream_container: a turn, 0 for None
    producers,      \* per turn, the thread running process_response
    queues,         \* per turn, the queue q
    generators      \* per turn, the generator queue_generator(q)

vars == <<text, chunk_size, chunk_overlap, chunks, start, pc, collection, last,
          active_source, retriever, deleted, writers, reader, lastWrite,
          clock, cache_data, knowledge_cache, last_cache_update, collections_index,
          messages, streaming, stream_container, producers, queues, generators>>
splitVars == <<text, chunk_size, chunk_overlap, chunks, start, pc>>
sessionVars == <<active_source, retriever, deleted>>
concVars == <<writers, reader, lastWrite>>
scanVars == <<clock, cache_data, knowledge_cache, last_cache_update, collections_index>>
streamVars == <<messages, streaming, stream_container, producers, queues, generators>>
uiVars == <<scanVars, streamVars>>

----------------------------------------------------------------------------
(* Bounds of the model.                                                    *)

MaxLen == 4
MaxSize == 5
MaxIter == MaxLen + 2

Chars == {"a", "b", "c"}

Min(a, b) == IF a < b THEN a ELSE b
Max(a, b) == IF a > b THEN a ELSE b

(* The texts of at most n characters.                                      *)
RECURSIVE TextsUpTo(_)
TextsUpTo(n) ==
    IF n = 0 THEN {""}
    ELSE LET shorter == TextsUpTo(n - 1)
         IN  shorter \cup {s \o c : s \in {t \in shorter : Len(t) = n - 1}, c \in Chars}

----------------------------------------------------------------------------
(* Python's text[a:b]: a negative index counts from the end, and both      *)
(* indices are clipped to 0..len(text).                                    *)

PyIndex(L, i) == IF i < 0 THEN Max(i + L, 0) ELSE Min(i, L)

PySlice(t, a, b) ==
    LET lo == PyIndex(Len(t), a)
        hi == PyIndex(Len(t), b)
    IN  IF lo < hi THEN SubSeq(t, lo + 1, hi) ELSE ""

(* One iteration of the while loop of split_text.                          *)
ChunkEnd(s, size) == s + size

NextStartNoOverlap(e, overlap) == e

NextStart(e, overlap) == e - overlap

LoopTestInclusive(t, s) == s <= Len(t)

LoopTest(t, s) == s < Len(t)

(* split_text as a function, for its callers.                              *)
RECURSIVE SplitFrom(_, _, _, _, _)
SplitFrom(t, s, size, overlap, acc) ==
    IF LoopTest(t, s)
    THEN SplitFrom(t, NextStart(ChunkEnd(s, size), overlap), size, overlap,
                   Append(acc, PySlice(t, s, ChunkEnd(s, size))))
    ELSE acc

split_text(t, size, overlap) == SplitFrom(t, 0, size, overlap, <<>>)

----------------------------------------------------------------------------
(* split_text, one loop iteration per step.                                *)

(* The callers that write to the shared collection at the same time.       *)
Writers == {"w1", "w2"}

(* No call is under way, no file was deleted, the caches of a new session  *)
(* are empty and no question was sent.                                     *)
InitIdle ==
    /\ last = [op |-> "none"]
    /\ deleted = {}
    /\ writers = [w \in Writers |-> [pc |-> "idle"]]
    /\ reader = [pc |-> "idle"]
    /\ lastWrite = {}
    /\ clock = 0
    /\ cache_data = {}
    /\ knowledge_cache = {}
    /\ last_cache_update = -1
    /\ collections_index = {}
    /\ messages = <<>>
    /\ streaming = FALSE
    /\ stream_container = 0
    /\ producers = <<>>
    /\ queues = <<>>
    /\ generators = <<>>

InitStore ==
    /\ collection = <<>>
    /\ active_source = "none"
    /\ retriever = "none"
    /\ InitIdle

InitSplit ==
    /\ text \in TextsUpTo(MaxLen)
    /\ chunk_size \in -1 .. MaxSize
    /\ chunk_overlap \in -1 .. MaxSize
    /\ chunks = <<>>
    /\ start = 0
    /\ pc = "loop"
    /\ InitStore

SplitIterate ==
    /\ pc = "loop"
    /\ LoopTest(text, start)
    /\ Len(chunks) < MaxIter
    /\ chunks' = Append(chunks, PySlice(text, start, ChunkEnd(start, chunk_size)))
    /\ start' = NextStart(ChunkEnd(start, chunk_size), chunk_overlap)
    /\ UNCHANGED <<text, chunk_size, chunk_overlap, pc, collection, last, sessionVars, concVars, uiVars>>

SplitReturn ==
    /\ pc = "loop"
    /\ ~LoopTest(text, start)
    /\ pc' = "return"
    /\ UNCHANGED <<text, chunk_size, chunk_overlap, chunks, start, collection, last, sessionVars, concVars, uiVars>>

NextSplit == SplitIterate \/ SplitReturn

SpecSplit == InitSplit /\ [][NextSplit]_vars

----------------------------------------------------------------------------
(* Ingestion and retrieval.                                                *)

DefaultChunkSize == 1000
DefaultChunkOverlap == 20

MaxBatch == 2
MaxK == 3

(* The documents the ingestion collaborators supply: the file of a source  *)
(* can be rewritten between two ingestions, so an id occurs with two texts.*)
RECURSIVE Repeat(_, _)
Repeat(s, n) ==
    IF n = 0 THEN "" ELSE IF n = 1 THEN s
    ELSE Repeat(s, n \div 2) \o Repeat(s, n - (n \div 2))

MakeText(len, shift) == SubSeq(Repeat("abc", (len \div 3) + 2), shift + 1, shift + len)

Documents ==
    { [id |-> "d1", text |-> MakeText(1985, 0)],
      [id |-> "d1", text |-> MakeText(1000, 1)],
      [id |-> "d2", text |-> MakeText(5, 2)],
      [id |-> "d2", text |-> MakeText(0, 0)] }

Batches == UNION {[1 .. n -> Documents] : n \in 1 .. MaxBatch}

Questions == {"a", "bc"}

(* get_gemini_embedding: the provider's vector for a text, when it answers.*)
CharCode(c) == IF c = "a" THEN 1 ELSE IF c = "b" THEN 2 ELSE 3

get_gemini_embedding(t) ==
    <<Len(t) % 7,
      IF t = "" THEN 0 ELSE CharCode(SubSeq(t, 1, 1)),
      IF t = "" THEN 0 ELSE CharCode(SubSeq(t, Len(t), Len(t)))>>

(* process_documents_for_embedding: the chunk records of one document, of  *)
(* the batch, and the batch with its embeddings.                           *)
ChunkIdZeroBased(docId, i) == docId \o "_chunk" \o ToString(i)

ChunkId(docId, i) == docId \o "_chunk" \o ToString(i + 1)

ChunkDocument(doc) ==
    LET cs == split_text(doc.text, DefaultChunkSize, DefaultChunkOverlap)
    IN  [n \in 1 .. Len(cs) |-> [id |-> ChunkId(doc.id, n - 1), text |-> cs[n]]]

RECURSIVE ChunkDocuments(_, _)
ChunkDocuments(documents, i) ==
    IF i > Len(documents) THEN <<>>
    ELSE ChunkDocument(documents[i]) \o ChunkDocuments(documents, i + 1)

EmbedChunks(chunked_documents) ==
    [n \in 1 .. Len(chunked_documents) |->
        [id |-> chunked_documents[n].id,
         text |-> chunked_documents[n].text,
         embedding |-> get_gemini_embedding(chunked_documents[n].text)]]

(* genai.embed_content raising (rate limit, network): get_gemini_embedding *)
(* has no handler, the exception leaves it as it was raised.               *)
ProviderExceptions == {"ResourceExhausted", "ServiceUnavailable"}

(* The task_type get_gemini_embedding passes to genai.embed_content,       *)
(* whether the text is a chunk to store or a question.                     *)
EmbedTaskTypeByPurpose(purpose) ==
    IF purpose = "question" THEN "SEMANTIC_SIMILARITY" ELSE "RETRIEVAL_DOCUMENT"

EmbedTaskType(purpose) == "RETRIEVAL_DOCUMENT"

NoException == [type |-> "none", cause |-> "none"]

EmbedContentError(exc) == [type |-> exc, cause |-> "none"]

(* The outcome of process_documents_for_embedding when the embedding call  *)
(* for chunk number embedFail raises (0: no call raises).                  *)
process_documents_for_embedding(documents, embedFail) ==
    LET chunked_documents == ChunkDocuments(documents, 1)
    IN  IF embedFail \in 1 .. Len(chunked_documents)
        THEN [outcome |-> "embedding_error", embed_calls |-> embedFail, value |-> <<>>]
        ELSE [outcome |-> "ok", embed_calls |-> Len(chunked_documents),
              value |-> EmbedChunks(chunked_documents)]

(* collection.upsert of one record: insert, or replace the record of the   *)
(* same id.                                                                *)
UpsertAppend(coll, doc) == Append(coll, doc)

UpsertKeepEmbedding(coll, doc) ==
    IF \E i \in 1 .. Len(coll) : coll[i].id = doc.id
    THEN [i \in 1 .. Len(coll) |->
            IF coll[i].id = doc.id THEN [coll[i] EXCEPT !.text = doc.text] ELSE coll[i]]
    ELSE Append(coll, doc)

UpsertIfAbsent(coll, doc) ==
    IF \E i \in 1 .. Len(coll) : coll[i].id = doc.id THEN coll ELSE Append(coll, doc)

Upsert(coll, doc) ==
    IF \E i \in 1 .. Len(coll) : coll[i].id = doc.id
    THEN [i \in 1 .. Len(coll) |-> IF coll[i].id = doc.id THEN doc ELSE coll[i]]
    ELSE Append(coll, doc)

RECURSIVE UpsertAllButLast(_, _, _)
RECURSIVE UpsertEach(_, _, _)
UpsertAllButLast(coll, documents, i) ==
    IF i >= Len(documents) THEN coll
    ELSE UpsertAllButLast(Upsert(coll, documents[i]), documents, i + 1)

UpsertEach(coll, documents, i) ==
    IF i > Len(documents) THEN coll
    ELSE UpsertEach(Upsert(coll, documents[i]), documents, i + 1)

(* DocumentRetriever.add_documents when the upsert call number storeFail   *)
(* raises (0: no call raises).                                             *)
add_documents(coll, documents, storeFail) ==
    IF storeFail \in 1 .. Len(documents)
    THEN [outcome |-> "storage_error", upsert_calls |-> storeFail,
          collection |-> UpsertEach(coll, SubSeq(documents, 1, storeFail - 1), 1)]
    ELSE [outcome |-> "ok", upsert_calls |-> Len(documents),
          collection |-> UpsertEach(coll, documents, 1)]

(* Embedding and upserting interleaved chunk by chunk.                     *)
IngestChunkByChunk(coll, documents, embedFail, storeFail) ==
    LET all == EmbedChunks(ChunkDocuments(documents, 1))
    IN  IF embedFail \in 1 .. Len(all)
        THEN [outcome |-> "embedding_error", embed_calls |-> embedFail,
              upsert_calls |-> embedFail - 1, processed |-> <<>>,
              collection |-> UpsertEach(coll, SubSeq(all, 1, embedFail - 1), 1)]
        ELSE [outcome |-> "ok", embed_calls |-> Len(all), upsert_calls |-> Len(all),
              processed |-> all, collection |-> UpsertEach(coll, all, 1)]

(* process_documents_for_embedding, then add_documents on its result.      *)
IngestDocuments(coll, documents, embedFail, storeFail) ==
    LET processed_docs == process_documents_for_embedding(documents, embedFail)
    IN  IF processed_docs.outcome # "ok"
        THEN [outcome |-> processed_docs.outcome, embed_calls |-> processed_docs.embed_calls,
              upsert_calls |-> 0, processed |-> <<>>, collection |-> coll]
        ELSE LET added == add_documents(coll, processed_docs.value, storeFail)
             IN  [outcome |-> added.outcome, embed_calls |-> processed_docs.embed_calls,
                  upsert_calls |-> added.upsert_calls, processed |-> processed_docs.value,
                  collection |-> added.collection]

(* collection.query: the n nearest records, nearest first; records at the  *)
(* same distance come in any order.                                        *)
Distance(u, v) ==
    (u[1] - v[1]) * (u[1] - v[1]) + (u[2] - v[2]) * (u[2] - v[2]) + (u[3] - v[3]) * (u[3] - v[3])

Nearest(coll, among, qe) ==
    {i \in among : \A j \in among :
        Distance(coll[i].embedding, qe) <= Distance(coll[j].embedding, qe)}

RECURSIVE Rankings(_, _, _, _)
Rankings(coll, among, qe, n) ==
    IF n = 0 \/ among = {} THEN {<<>>}
    ELSE UNION { {<<i>> \o r : r \in Rankings(coll, among \ {i}, qe, n - 1)} :
                 i \in Nearest(coll, among, qe) }

CollectionQuery(coll, qe, n) ==
    { [documents |-> << [k \in 1 .. Len(r) |-> coll[r[k]].text] >>] :
      r \in Rankings(coll, 1 .. Len(coll), qe, n) }

RECURSIVE Flatten(_)
NoFlatten(lists) == lists

Flatten(lists) ==
    IF lists = <<>> THEN <<>> ELSE Head(lists) \o Flatten(Tail(lists))

(* DocumentRetriever.query_documents: the lists it can return.             *)
query_documents(coll, question, n_results) ==
    LET query_embedding == get_gemini_embedding(question)
    IN  {Flatten(results.documents) : results \in CollectionQuery(coll, query_embedding, n_results)}

(* generate_response: the prompt built from the chunks and the question,   *)
(* one generation call, and the stripped response text.                    *)
RECURSIVE Join(_, _)
Join(parts, sep) ==
    IF parts = <<>> THEN ""
    ELSE IF Len(parts) = 1 THEN parts[1]
    ELSE parts[1] \o sep \o Join(Tail(parts), sep)

Whitespace == {" ", "\n", "\t", "\r"}

RECURSIVE LStrip(_)
LStrip(s) ==
    IF s # "" /\ SubSeq(s, 1, 1) \in Whitespace THEN LStrip(SubSeq(s, 2, Len(s))) ELSE s

RECURSIVE RStrip(_)
RStrip(s) ==
    IF s # "" /\ SubSeq(s, Len(s), Len(s)) \in Whitespace
    THEN RStrip(SubSeq(s, 1, Len(s) - 1)) ELSE s

StripLeftOnly(s) == LStrip(s)

Strip(s) == LStrip(RStrip(s))

PromptInstructions ==
    "You are an assistant for question-answering tasks. Use the following pieces of "
    \o "retrieved context to answer the question. If you don't know the answer, say that you "
    \o "don't know. Use three sentences maximum and keep the answer concise."

BuildPrompt(question, relevant_chunks) ==
    PromptInstructions \o "\n\nContext:\n" \o Join(relevant_chunks, "\n\n")
        \o "\n\nQuestion:\n" \o question

(* model.generate_content: the provider's text for a prompt, when it       *)
(* answers; it comes with surrounding whitespace.                          *)
generate_content(prompt) == " \n" \o "answer " \o ToString(Len(prompt)) \o " \n"

generate_response(question, relevant_chunks) ==
    Strip(generate_content(BuildPrompt(question, relevant_chunks)))

(* DocumentRetriever.__init__: get_or_create_collection returns the        *)
(* collection persisted under CHROMA_PERSIST_DIR / COLLECTION_NAME.        *)
CreateEmptyCollection(persisted) == <<>>

get_or_create_collection(persisted) == persisted

(* ask_question: n_results = 0 stands for the argument left out.           *)
DefaultNResults == 2

NResultsAlwaysDefault(n_results) == DefaultNResults

NResultsArgument(n_results) == IF n_results = 0 THEN DefaultNResults ELSE n_results

(* display_qa_results: what is printed for one question.                   *)
display_qa_results(question, answer, sources) ==
    [question |-> question, answer |-> answer, sources |-> sources]

(* An ask_question that answers with a local text when a call raises.      *)
ask_question_with_fallback(persisted, question, n_results, fail) ==
    LET k == NResultsArgument(n_results)
    IN  {[outcome |-> "ok", calls |-> <<"embed_content", "query", "generate_content">>,
          k |-> k, queried |-> <<>>, generated_on |-> <<>>,
          prompt |-> BuildPrompt(question, <<>>), response |-> "",
          answer |-> "I don't know.", relevant_chunks |-> <<>>, raised |-> "none",
          displayed |-> <<display_qa_results(question, "I don't know.", <<>>)>>]}

(* The outcomes of ask_question when the call named by fail raises: the    *)
(* exception leaves ask_question at that call, before display_qa_results.  *)
ask_question(persisted, question, n_results, fail) ==
    LET coll == get_or_create_collection(persisted)
        k == NResultsArgument(n_results)
    IN  IF fail = "embed_content"
        THEN {[outcome |-> "embedding_error", calls |-> <<"embed_content">>, k |-> k,
               raised |-> fail, displayed |-> <<>>]}
        ELSE IF fail = "query"
        THEN {[outcome |-> "storage_error", calls |-> <<"embed_content", "query">>, k |-> k,
               raised |-> fail, displayed |-> <<>>]}
        ELSE IF fail = "generate_content"
        THEN {[outcome |-> "generation_error",
               calls |-> <<"embed_content", "query", "generate_content">>, k |-> k,
               raised |-> fail, displayed |-> <<>>]}
        ELSE {[outcome |-> "ok",
               calls |-> <<"embed_content", "query", "generate_content">>, k |-> k,
               queried |-> relevant_chunks,
               generated_on |-> relevant_chunks,
               prompt |-> BuildPrompt(question, relevant_chunks),
               response |-> generate_content(BuildPrompt(question, relevant_chunks)),
               answer |-> generate_response(question, relevant_chunks),
               relevant_chunks |-> relevant_chunks,
               raised |-> "none",
               displayed |-> <<display_qa_results(question,
                                                  generate_response(question, relevant_chunks),
                                                  relevant_chunks)>>] :
              relevant_chunks \in query_documents(coll, question, k)}

----------------------------------------------------------------------------
(* The program: ingestions and queries on the persistent collection.       *)

Init ==
    /\ text = ""
    /\ chunk_size = DefaultChunkSize
    /\ chunk_overlap = DefaultChunkOverlap
    /\ chunks = <<>>
    /\ start = 0
    /\ pc = "return"
    /\ InitStore

(* initialize_source_retriever, initialize_document_store,                 *)
(* ingest_knowledge_source: ingest a batch of documents.                   *)
Ingest ==
    /\ last.op = "none"
    /\ \E documents \in Batches :
       \E embedFail \in 0 .. Len(ChunkDocuments(documents, 1)) :
       \E storeFail \in 0 .. Len(ChunkDocuments(documents, 1)) :
       \E exc \in IF embedFail = 0 THEN {"none"} ELSE ProviderExceptions :
        /\ embedFail # 0 => storeFail = 0
        /\ LET r == IngestDocuments(get_or_create_collection(collection), documents,
                                    embedFail, storeFail)
           IN  /\ collection' = r.collection
               /\ last' = [op |-> "ingest", outcome |-> r.outcome, documents |-> documents,
                           embed_calls |-> r.embed_calls, upsert_calls |-> r.upsert_calls,
                           processed |-> r.processed, before |-> collection,
                           task_types |-> [n \in 1 .. r.embed_calls |-> EmbedTaskType("storage")],
                           raised |-> IF r.outcome = "embedding_error"
                                      THEN EmbedContentError(exc) ELSE NoException]
        /\ UNCHANGED <<splitVars, sessionVars, concVars, uiVars>>

(* ask_question, show_chat_interface: query the collection.                *)
QueryFails ==
    /\ last.op = "none"
    /\ \E question \in Questions, n_results \in 1 .. MaxK, exc \in ProviderExceptions :
        /\ last' = [op |-> "query", outcome |-> "embedding_error", question |-> question,
                    n_results |-> n_results, embed_calls |-> 1,
                    task_type |-> EmbedTaskType("question"),
                    raised |-> EmbedContentError(exc)]
        /\ UNCHANGED <<collection, splitVars, sessionVars, concVars, uiVars>>

Query ==
    /\ last.op = "none"
    /\ \E question \in Questions, n_results \in 1 .. MaxK :
       \E relevant_chunks \in query_documents(collection, question, n_results) :
        /\ last' = [op |-> "query", outcome |-> "ok", question |-> question,
                    n_results |-> n_results, relevant_chunks |-> relevant_chunks,
                    task_type |-> EmbedTaskType("question")]
        /\ UNCHANGED <<collection, splitVars, sessionVars, concVars, uiVars>>

(* ask_question: a new retriever, the query and the generation call.       *)
AskQuestion ==
    /\ last.op = "none"
    /\ \E question \in Questions, n_results \in 0 .. MaxK :
       \E fail \in {"none", "embed_content", "query", "generate_content"} :
       \E r \in ask_question(collection, question, n_results, fail) :
        /\ last' = [op |-> "ask", question |-> question, n_results |-> n_results,
                    fail |-> fail, result |-> r]
        /\ UNCHANGED <<collection, splitVars, sessionVars, concVars, uiVars>>

(* DocumentRetriever(): a retriever constructed in this or a later process.*)
Construct ==
    /\ last.op = "none"
    /\ collection' = get_or_create_collection(collection)
    /\ last' = [op |-> "construct", before |-> collection]
    /\ UNCHANGED <<splitVars, sessionVars, concVars, uiVars>>

(* The caller is done with what the call returned or raised.               *)
Return ==
    /\ last.op # "none"
    /\ last' = [op |-> "none"]
    /\ UNCHANGED <<collection, splitVars, sessionVars, concVars, uiVars>>

Next == Ingest \/ Query \/ QueryFails \/ AskQuestion \/ Construct \/ Return

Spec == Init /\ [][Next]_vars

----------------------------------------------------------------------------
(* Retriever instances of different callers on the shared collection:      *)
(* add_documents runs its loop one chunk per step, query_documents makes   *)
(* its embedding call and then its collection.query; each collection call  *)
(* is one step.                                                            *)

EmbeddedChunk(id, t) == [id |-> id, text |-> t, embedding |-> get_gemini_embedding(t)]

(* The chunk lists the callers pass to add_documents; a record handed over *)
(* without process_documents_for_embedding has no "embedding" key.         *)
ChunkLists ==
    { << EmbeddedChunk("d1_chunk1", "a"), EmbeddedChunk("d1_chunk2", "a") >>,
      << EmbeddedChunk("d1_chunk2", "b"), EmbeddedChunk("d1_chunk1", "b") >>,
      << EmbeddedChunk("d1_chunk1", "c") >>,
      << EmbeddedChunk("d1_chunk2", "c"), [id |-> "d1_chunk1", text |-> "a"] >> }

(* doc["embedding"] on a record without the key.                           *)
KeyError == [type |-> "KeyError", cause |-> "none"]

IdsOf(documents) == {documents[n].id : n \in 1 .. Len(documents)}

(* add_documents is called.                                                *)
BeginAdd(w) ==
    /\ writers[w].pc = "idle"
    /\ \E documents \in ChunkLists :
          writers' = [writers EXCEPT ![w] = [pc |-> "adding", documents |-> documents, i |-> 1]]
    /\ UNCHANGED <<collection, last, reader, lastWrite, splitVars, sessionVars, uiVars>>

(* One iteration of the loop: the arguments are read from the record, then *)
(* collection.upsert is called.                                            *)
UpsertStep(w) ==
    /\ writers[w].pc = "adding"
    /\ writers[w].i <= Len(writers[w].documents)
    /\ LET doc == writers[w].documents[writers[w].i]
       IN  IF "embedding" \in DOMAIN doc
           THEN /\ collection' = Upsert(collection, doc)
                /\ lastWrite' = {r \in lastWrite : r.id # doc.id} \cup {doc}
                /\ writers' = [writers EXCEPT ![w].i = @ + 1]
           ELSE /\ writers' = [writers EXCEPT ![w] =
                                  [pc |-> "raised", documents |-> writers[w].documents,
                                   i |-> writers[w].i, raised |-> KeyError]]
                /\ UNCHANGED <<collection, lastWrite>>
    /\ UNCHANGED <<last, reader, splitVars, sessionVars, uiVars>>

(* The loop is over: add_documents returns.                                *)
EndAdd(w) ==
    /\ writers[w].pc = "adding"
    /\ writers[w].i > Len(writers[w].documents)
    /\ writers' = [writers EXCEPT ![w] = [pc |-> "returned", documents |-> writers[w].documents]]
    /\ UNCHANGED <<collection, last, reader, lastWrite, splitVars, sessionVars, uiVars>>

(* The caller goes on after the return or the exception.                   *)
WriterDone(w) ==
    /\ writers[w].pc \in {"returned", "raised"}
    /\ writers' = [writers EXCEPT ![w] = [pc |-> "idle"]]
    /\ UNCHANGED <<collection, last, reader, lastWrite, splitVars, sessionVars, uiVars>>

(* query_documents is called: the embedding of the question.               *)
BeginQuery ==
    /\ reader.pc = "idle"
    /\ \E question \in Questions :
          reader' = [pc |-> "querying", question |-> question,
                     returned_before |->
                         UNION {IdsOf(writers[w].documents) :
                                    w \in {v \in Writers : writers[v].pc = "returned"}}]
    /\ UNCHANGED <<collection, last, writers, lastWrite, splitVars, sessionVars, uiVars>>

(* collection.query with the default n_results, and the flattened result.  *)
EvalQuery ==
    /\ reader.pc = "querying"
    /\ \E relevant_chunks \in query_documents(collection, reader.question, DefaultNResults) :
          reader' = [pc |-> "returned", question |-> reader.question,
                     returned_before |-> reader.returned_before,
                     evaluated_on |-> collection,
                     relevant_chunks |-> relevant_chunks]
    /\ UNCHANGED <<collection, last, writers, lastWrite, splitVars, sessionVars, uiVars>>

ReaderDone ==
    /\ reader.pc = "returned"
    /\ reader' = [pc |-> "idle"]
    /\ UNCHANGED <<collection, last, writers, lastWrite, splitVars, sessionVars, uiVars>>

NextConc ==
    \/ \E w \in Writers : BeginAdd(w) \/ UpsertStep(w) \/ EndAdd(w) \/ WriterDone(w)
    \/ BeginQuery \/ EvalQuery \/ ReaderDone

SpecConc == Init /\ [][NextConc]_vars

----------------------------------------------------------------------------
(* scan_knowledge_sources behind its two caches: the st.cache_data memo    *)
(* keyed by the argument, and the knowledge_cache of the session.          *)

CacheTTL == 30
SessionCacheSeconds == 30
MaxClock == 60

CollectionIds == {"c1", "c2"}

(* The body of scan_knowledge_sources; the sources are named by their ids. *)
scan_body(force_refresh, kc, lcu, index, now) ==
    IF ~force_refresh /\ lcu # -1 /\ now - lcu < SessionCacheSeconds /\ kc # {}
    THEN [result |-> kc, knowledge_cache |-> kc, last_cache_update |-> lcu]
    ELSE [result |-> index, knowledge_cache |-> index, last_cache_update |-> now]

(* The decorated function: an entry for the same argument younger than the *)
(* ttl is returned without running the body.                               *)
scan_knowledge_sources(force_refresh, memo, kc, lcu, index, now) ==
    LET fresh == {e \in memo : e.force_refresh = force_refresh /\ now - e.time < CacheTTL}
    IN  IF fresh # {}
        THEN [result |-> (CHOOSE e \in fresh : TRUE).value, ran_body |-> FALSE,
              cache_data |-> memo, knowledge_cache |-> kc, last_cache_update |-> lcu]
        ELSE LET b == scan_body(force_refresh, kc, lcu, index, now)
             IN  [result |-> b.result, ran_body |-> TRUE,
                  cache_data |-> {e \in memo : e.force_refresh # force_refresh}
                                     \cup {[force_refresh |-> force_refresh,
                                            value |-> b.result, time |-> now]},
                  knowledge_cache |-> b.knowledge_cache,
                  last_cache_update |-> b.last_cache_update]

(* show_sources_page, init_session_state: the list is scanned.             *)
Scan ==
    /\ last.op = "none"
    /\ \E force_refresh \in BOOLEAN :
       LET r == scan_knowledge_sources(force_refresh, cache_data, knowledge_cache,
                                       last_cache_update, collections_index, clock)
       IN  /\ cache_data' = r.cache_data
           /\ knowledge_cache' = r.knowledge_cache
           /\ last_cache_update' = r.last_cache_update
           /\ last' = [op |-> "scan", force_refresh |-> force_refresh, result |-> r.result,
                       ran_body |-> r.ran_body]
    /\ UNCHANGED <<clock, collections_index, collection, splitVars, sessionVars, concVars,
                   streamVars>>

(* show_create_collection_page, ingest_knowledge_source: a collection is   *)
(* created, then looked for in a forced scan.                              *)
CreateCollection ==
    /\ last.op = "none"
    /\ \E c \in CollectionIds \ collections_index :
       LET r == scan_knowledge_sources(TRUE, cache_data, knowledge_cache,
                                       last_cache_update, collections_index \cup {c}, clock)
       IN  /\ collections_index' = collections_index \cup {c}
           /\ cache_data' = r.cache_data
           /\ knowledge_cache' = r.knowledge_cache
           /\ last_cache_update' = r.last_cache_update
           /\ last' = [op |-> "create", force_refresh |-> TRUE, created |-> c,
                       result |-> r.result, ran_body |-> r.ran_body]
    /\ UNCHANGED <<clock, collection, splitVars, sessionVars, concVars, streamVars>>

(* delete_knowledge_collection, then the forced scan of the Delete button. *)
DeleteCollection ==
    /\ last.op = "none"
    /\ \E c \in collections_index :
       LET r == scan_knowledge_sources(TRUE, cache_data, knowledge_cache,
                                       last_cache_update, collections_index \ {c}, clock)
       IN  /\ collections_index' = collections_index \ {c}
           /\ cache_data' = r.cache_data
           /\ knowledge_cache' = r.knowledge_cache
           /\ last_cache_update' = r.last_cache_update
           /\ last' = [op |-> "delete_collection", force_refresh |-> TRUE, removed |-> c,
                       result |-> r.result, ran_body |-> r.ran_body]
    /\ UNCHANGED <<clock, collection, splitVars, sessionVars, concVars, streamVars>>

(* Time passes.                                                            *)
Tick ==
    /\ last.op = "none"
    /\ clock < MaxClock
    /\ clock' = clock + (CacheTTL \div 3)
    /\ UNCHANGED <<cache_data, knowledge_cache, last_cache_update, collections_index,
                   collection, last, splitVars, sessionVars, concVars, streamVars>>

NextScan == Scan \/ CreateCollection \/ DeleteCollection \/ Tick \/ Return

SpecScan == Init /\ [][NextScan]_vars

----------------------------------------------------------------------------
(* The chat of a session with a retriever: each question sent starts a     *)
(* thread that feeds the words of the answer to a queue, and the next      *)
(* script run writes what the generator takes from that queue.             *)

(* Questions sent while the liveness of the stream is checked, and while   *)
(* only the order of the messages is.                                      *)
MaxTurns == 1

MaxSubmissions == 2

(* The texts generate_response can return: stripped, any spacing inside.   *)
Answers == {"", "ab", "a b", "a  b", "a b c"}

FirstSpace(s) ==
    IF \E n \in 1 .. Len(s) : SubSeq(s, n, n) = " "
    THEN CHOOSE n \in 1 .. Len(s) :
            /\ SubSeq(s, n, n) = " "
            /\ \A m \in 1 .. n - 1 : SubSeq(s, m, m) # " "
    ELSE 0

(* full_answer.split(" ")                                                  *)
RECURSIVE SplitOnSpace(_)
SplitOnSpace(s) ==
    IF FirstSpace(s) = 0 THEN <<s>>
    ELSE <<SubSeq(s, 1, FirstSpace(s) - 1)>> \o SplitOnSpace(SubSeq(s, FirstSpace(s) + 1, Len(s)))

(* The items of the queue: a word with its space, or None.                 *)
WordItemBare(word) == <<word>>

WordItem(word) == <<word \o " ">>

NoneItem == <<>>

(* The session after init_session_state selected the source d2.            *)
InitChat ==
    /\ text = ""
    /\ chunk_size = DefaultChunkSize
    /\ chunk_overlap = DefaultChunkOverlap
    /\ chunks = <<>>
    /\ start = 0
    /\ pc = "return"
    /\ collection = IngestDocuments(<<>>, <<[id |-> "d2", text |-> MakeText(5, 2)]>>, 0, 0).collection
    /\ active_source = "d2"
    /\ retriever = "retriever"
    /\ InitIdle

(* show_chat_interface with a retriever: the question is stored, the       *)
(* answer generated, the thread started and the script rerun. A generator  *)
(* the interrupted run was writing is left where it is.                    *)
SubmitUpTo(max) ==
    /\ retriever # "none"
    /\ Len(producers) < max
    /\ \E full_answer \in Answers :
        /\ messages' = Append(messages, [role |-> "user", turn |-> Len(producers) + 1,
                                         content |-> "question"])
        /\ streaming' = TRUE
        /\ stream_container' = Len(producers) + 1
        /\ producers' = Append(producers, [pc |-> "put", full_answer |-> full_answer,
                                           words |-> SplitOnSpace(full_answer), i |-> 1,
                                           put |-> <<>>])
        /\ queues' = Append(queues, <<>>)
        /\ generators' = Append([t \in 1 .. Len(generators) |->
                                    IF generators[t].pc = "writing"
                                    THEN [generators[t] EXCEPT !.pc = "abandoned"]
                                    ELSE generators[t]],
                                [pc |-> "created", yielded |-> <<>>])
    /\ UNCHANGED <<collection, last, splitVars, sessionVars, concVars, scanVars>>

Submit == SubmitUpTo(MaxTurns)

SubmitAgain == SubmitUpTo(MaxSubmissions)

(* The rerun finds streaming set and hands the generator to write_stream.  *)
BeginStream ==
    /\ streaming
    /\ stream_container # 0
    /\ generators[stream_container].pc = "created"
    /\ generators' = [generators EXCEPT ![stream_container].pc = "writing"]
    /\ UNCHANGED <<messages, streaming, stream_container, producers, queues,
                   collection, last, splitVars, sessionVars, concVars, scanVars>>

(* process_response: q.put(word + " ") for the next word.                  *)
ProducerPut(t) ==
    /\ t <= Len(producers)
    /\ producers[t].pc = "put"
    /\ producers[t].i <= Len(producers[t].words)
    /\ queues' = [queues EXCEPT ![t] = Append(@, WordItem(producers[t].words[producers[t].i]))]
    /\ producers' = [producers EXCEPT
                        ![t].i = @ + 1,
                        ![t].put = Append(@, WordItem(producers[t].words[producers[t].i]))]
    /\ UNCHANGED <<messages, streaming, stream_container, generators,
                   collection, last, splitVars, sessionVars, concVars, scanVars>>

(* process_response: q.put(None) after the loop.                           *)
ProducerSentinel(t) ==
    /\ t <= Len(producers)
    /\ producers[t].pc = "put"
    /\ producers[t].i > Len(producers[t].words)
    /\ queues' = [queues EXCEPT ![t] = Append(@, NoneItem)]
    /\ producers' = [producers EXCEPT ![t].pc = "add_message", ![t].put = Append(@, NoneItem)]
    /\ UNCHANGED <<messages, streaming, stream_container, generators,
                   collection, last, splitVars, sessionVars, concVars, scanVars>>

(* process_response: add_message("assistant", full_answer).                *)
ProducerAddMessage(t) ==
    /\ t <= Len(producers)
    /\ producers[t].pc = "add_message"
    /\ messages' = Append(messages, [role |-> "assistant", turn |-> t,
                                     content |-> producers[t].full_answer])
    /\ producers' = [producers EXCEPT ![t].pc = "end_streaming"]
    /\ UNCHANGED <<streaming, stream_container, queues, generators,
                   collection, last, splitVars, sessionVars, concVars, scanVars>>

(* process_response: st.session_state.streaming = False.                   *)
ProducerEndStreaming(t) ==
    /\ t <= Len(producers)
    /\ producers[t].pc = "end_streaming"
    /\ streaming' = FALSE
    /\ producers' = [producers EXCEPT ![t].pc = "done"]
    /\ UNCHANGED <<messages, stream_container, queues, generators,
                   collection, last, splitVars, sessionVars, concVars, scanVars>>

ProducerStep(t) ==
    ProducerPut(t) \/ ProducerSentinel(t) \/ ProducerAddMessage(t) \/ ProducerEndStreaming(t)

(* queue_generator: q.get() returns an item; None ends the generator, a    *)
(* word is yielded.                                                        *)
GeneratorNext(t) ==
    /\ t <= Len(generators)
    /\ generators[t].pc = "writing"
    /\ queues[t] # <<>>
    /\ queues' = [queues EXCEPT ![t] = Tail(@)]
    /\ generators' = [generators EXCEPT ![t] =
                         IF Head(queues[t]) = NoneItem
                         THEN [pc |-> "done", yielded |-> @.yielded]
                         ELSE [pc |-> "writing", yielded |-> Append(@.yielded, Head(queues[t])[1])]]
    /\ UNCHANGED <<messages, streaming, stream_container, producers,
                   collection, last, splitVars, sessionVars, concVars, scanVars>>

NextStream ==
    \/ Submit
    \/ BeginStream
    \/ \E t \in 1 .. MaxTurns : ProducerStep(t) \/ GeneratorNext(t)

NextChat ==
    \/ SubmitAgain
    \/ BeginStream
    \/ \E t \in 1 .. MaxSubmissions : ProducerStep(t) \/ GeneratorNext(t)

SpecChat == InitChat /\ [][NextChat]_vars

(* The thread and the script run that writes the stream both keep running. *)
SpecStream ==
    /\ InitChat
    /\ [][NextStream]_vars
    /\ \A t \in 1 .. MaxTurns : WF_vars(ProducerStep(t)) /\ WF_vars(GeneratorNext(t))

----------------------------------------------------------------------------
(* The Streamlit session: the active source and its retriever.             *)

ChatNResults == 3

(* initialize_source_retriever: None when the file is gone or anything     *)
(* raises, else a retriever after the one document of the source is        *)
(* ingested.                                                               *)
initialize_source_retriever(persisted, source, exists, embedFail, storeFail) ==
    IF ~exists
    THEN [retriever |-> "none", outcome |-> "missing", collection |-> persisted]
    ELSE LET r == IngestDocuments(get_or_create_collection(persisted), <<source>>,
                                  embedFail, storeFail)
         IN  [retriever |-> IF r.outcome = "ok" THEN "retriever" ELSE "none",
              outcome |-> r.outcome, collection |-> r.collection]

(* The "Clear Source" button resets the session; the collection is not     *)
(* among the things it touches.                                            *)
ClearSourceDeletesStore(coll) == <<>>

ClearSourceStore(coll) == coll

(* select_source_for_chat, init_session_state.                             *)
SelectSource ==
    /\ last.op = "none"
    /\ \E source \in Documents, exists \in BOOLEAN :
       \E embedFail \in 0 .. Len(ChunkDocument(source)) :
       \E storeFail \in 0 .. Len(ChunkDocument(source)) :
        /\ embedFail # 0 => storeFail = 0
        /\ ~exists => (embedFail = 0 /\ storeFail = 0)
        /\ source.id \in deleted => ~exists
        /\ LET r == initialize_source_retriever(collection, source, exists, embedFail, storeFail)
           IN  /\ active_source' = source.id
               /\ retriever' = r.retriever
               /\ collection' = r.collection
               /\ last' = [op |-> "select", outcome |-> r.outcome, source |-> source,
                           before |-> collection]
        /\ UNCHANGED <<deleted, splitVars, concVars, uiVars>>

(* show_sidebar: the "Clear Source" button, shown while a source is active.*)
ClearSource ==
    /\ last.op = "none"
    /\ active_source # "none"
    /\ active_source' = "none"
    /\ retriever' = "none"
    /\ collection' = ClearSourceStore(collection)
    /\ last' = [op |-> "clear", source |-> active_source, before |-> collection]
    /\ UNCHANGED <<deleted, splitVars, concVars, uiVars>>

(* delete_knowledge_source, delete_knowledge_collection: the file or the   *)
(* directory of the source is removed; nothing is asked of the collection. *)
DeleteSourceStore(coll, id) == coll

SourceIds == {d.id : d \in Documents}

(* display_source_card: the "Delete" button of a source that is on disk.   *)
DeleteSource ==
    /\ last.op = "none"
    /\ \E id \in SourceIds \ deleted :
        /\ deleted' = deleted \cup {id}
        /\ collection' = DeleteSourceStore(collection, id)
        /\ IF active_source = id
           THEN active_source' = "none" /\ retriever' = "none"
           ELSE UNCHANGED <<active_source, retriever>>
        /\ last' = [op |-> "delete", source |-> id, before |-> collection]
    /\ UNCHANGED <<splitVars, concVars, uiVars>>

(* delete_all_knowledge_sources: every file and collection directory is    *)
(* removed and the session is reset.                                       *)
DeleteAllSources ==
    /\ last.op = "none"
    /\ deleted' = SourceIds
    /\ collection' = DeleteSourceStore(collection, "all")
    /\ active_source' = "none"
    /\ retriever' = "none"
    /\ last' = [op |-> "delete_all", before |-> collection]
    /\ UNCHANGED <<splitVars, concVars, uiVars>>

(* show_chat_interface: a question sent in the chat form.                  *)
ChatQuery ==
    /\ last.op = "none"
    /\ IF retriever = "none"
       THEN last' = [op |-> "chat", outcome |-> "no_source"]
       ELSE \E question \in Questions :
            \E relevant_chunks \in query_documents(collection, question, ChatNResults) :
                last' = [op |-> "chat", outcome |-> "ok", question |-> question,
                         relevant_chunks |-> relevant_chunks]
    /\ UNCHANGED <<collection, splitVars, sessionVars, concVars, uiVars>>

(* A session ingests through SelectSource and queries through ChatQuery;   *)
(* ask_question and retriever constructions of other callers interleave.   *)
NextSession ==
    \/ SelectSource \/ ClearSource \/ DeleteSource \/ DeleteAllSources
    \/ ChatQuery \/ AskQuestion \/ Construct \/ Return

SpecSession == Init /\ [][NextSession]_vars


----------------------------------------------------------------------------
(* Properties of split_text.                                               *)

InvalidConfiguration == chunk_overlap >= chunk_size \/ chunk_size <= 0

ValidConfiguration == chunk_size > 0 /\ 0 <= chunk_overlap /\ chunk_overlap < chunk_size

Step == chunk_size - chunk_overlap

CeilDiv(a, b) == (a + b - 1) \div b

Drop(c, n) == SubSeq(c, n + 1, Len(c))

Prefix(c, n) == SubSeq(c, 1, Min(n, Len(c)))

Suffix(c, n) == SubSeq(c, Max(Len(c) - n, 0) + 1, Len(c))

RECURSIVE Reassemble(_, _, _)
Reassemble(cs, overlap, i) ==
    IF i > Len(cs) THEN ""
    ELSE (IF i = 1 THEN cs[1] ELSE Drop(cs[i], overlap)) \o Reassemble(cs, overlap, i + 1)

\* C1: whenever chunk_overlap >= chunk_size or chunk_size <= 0, split_text
\* rejects the call: it emits no chunk and does not return a list.
C1_RejectsInvalidConfiguration ==
    InvalidConfiguration => (chunks = <<>> /\ pc # "return")

\* C2: with chunk_size > 0 and 0 <= chunk_overlap < chunk_size, split_text
\* returns exactly ceil(L / step) chunks, the i-th (0-based) being
\* text[i*step : min(i*step + chunk_size, L)].
C2_ChunksAreWindows ==
    (pc = "return" /\ ValidConfiguration) =>
        /\ Len(chunks) = CeilDiv(Len(text), Step)
        /\ \A i \in 0 .. Len(chunks) - 1 :
              chunks[i + 1] = SubSeq(text, i * Step + 1, Min(i * Step + chunk_size, Len(text)))

C2_Witness ==
    /\ pc = "return"
    /\ ValidConfiguration
    /\ chunk_overlap >= 1
    /\ Len(chunks) >= 3
    /\ Len(chunks[Len(chunks)]) < chunk_size
    /\ Len(chunks[1]) = chunk_size

\* C9: with 0 <= chunk_overlap < chunk_size, the first chunk followed by every
\* later chunk without its first chunk_overlap characters is the text.
C9_ReassemblesText ==
    (pc = "return" /\ ValidConfiguration) => Reassemble(chunks, chunk_overlap, 1) = text

C9_Witness ==
    /\ pc = "return"
    /\ ValidConfiguration
    /\ chunk_overlap >= 1
    /\ Len(chunks) >= 3
    /\ Len(text) > chunk_size
    /\ Reassemble(chunks, chunk_overlap, 1) = text

\* C10: with valid parameters, every pair of consecutive chunks except
\* possibly the last pair overlaps by exactly chunk_overlap characters: the
\* last chunk_overlap characters of chunk i are the first chunk_overlap
\* characters of chunk i+1.
C10_ConsecutiveChunksOverlap ==
    (pc = "return" /\ ValidConfiguration) =>
        \A i \in 1 .. Len(chunks) - 2 :
            /\ Len(chunks[i]) >= chunk_overlap
            /\ Len(chunks[i + 1]) >= chunk_overlap
            /\ Suffix(chunks[i], chunk_overlap) = Prefix(chunks[i + 1], chunk_overlap)

\* C11: with chunk_size > 0 and chunk_overlap < chunk_size (a negative
\* chunk_overlap included), every character position of the text lies inside
\* at least one chunk.
C11_EveryPositionCovered ==
    (pc = "return" /\ chunk_size > 0 /\ chunk_overlap < chunk_size) =>
        \A p \in 0 .. Len(text) - 1 :
            \E i \in 0 .. Len(chunks) - 1 :
                /\ i * Step <= p
                /\ p < i * Step + Len(chunks[i + 1])
                /\ SubSeq(chunks[i + 1], p - i * Step + 1, p - i * Step + 1)
                       = SubSeq(text, p + 1, p + 1)

----------------------------------------------------------------------------
(* Properties of ingestion and retrieval.                                  *)

IngestReturned == last.op = "ingest"

QueryReturned == last.op = "query" /\ last.outcome = "ok"

ChunkPrefix(docId) == docId \o "_chunk"

HasChunkOf(coll, docId) ==
    \E i \in 1 .. Len(coll) :
        SubSeq(coll[i].id, 1, Len(ChunkPrefix(docId))) = ChunkPrefix(docId)

ChunkCount(doc) == CeilDiv(Len(doc.text), DefaultChunkSize - DefaultChunkOverlap)

RECURSIVE ChunksBefore(_, _)
ChunksBefore(documents, k) ==
    IF k <= 1 THEN 0 ELSE ChunksBefore(documents, k - 1) + ChunkCount(documents[k - 1])

(* The document that chunk number j of the batch belongs to.               *)
OwnerOf(documents, j) ==
    CHOOSE k \in 1 .. Len(documents) :
        ChunksBefore(documents, k) < j /\ j <= ChunksBefore(documents, k) + ChunkCount(documents[k])

Window(t, n) ==
    SubSeq(t, (n - 1) * (DefaultChunkSize - DefaultChunkOverlap) + 1,
           Min((n - 1) * (DefaultChunkSize - DefaultChunkOverlap) + DefaultChunkSize, Len(t)))

\* C3 (as claimed): if the embedding provider fails on a chunk of the batch,
\* collection.upsert is never invoked and the store contains no chunk of that
\* document afterwards.
C3_NoChunkOfDocumentAfterEmbeddingFailure ==
    (IngestReturned /\ last.outcome = "embedding_error") =>
        /\ last.upsert_calls = 0
        /\ ~HasChunkOf(collection, last.documents[OwnerOf(last.documents, last.embed_calls)].id)

\* C3 (amended): if the embedding provider fails on a chunk of the batch,
\* collection.upsert is never invoked and the store is left exactly as it was
\* before the ingestion; whenever an upsert is invoked, every chunk of the
\* batch has been embedded.
C3_EmbeddingFailureLeavesStoreAsBefore ==
    IngestReturned =>
        /\ last.outcome = "embedding_error" =>
              (last.upsert_calls = 0 /\ collection = last.before)
        /\ last.upsert_calls > 0 =>
              last.embed_calls = Len(ChunkDocuments(last.documents, 1))

C3_Witness ==
    /\ IngestReturned
    /\ last.outcome = "embedding_error"
    /\ last.embed_calls = 3
    /\ Len(ChunkDocuments(last.documents, 1)) = 5
    /\ last.upsert_calls = 0
    /\ last.before # <<>>
    /\ collection = last.before

\* C4: if ingesting a document fails at any step, a failure of the k-th upsert
\* included, the store afterwards is identical to the store before the
\* ingestion began.
C4_FailedIngestionLeavesStoreUnchanged ==
    (IngestReturned /\ last.outcome # "ok") => collection = last.before

\* C5: the store holds at most one chunk per id, and every id's text is paired
\* with the embedding upserted with that text.
C5_OneChunkPerId ==
    /\ \A i, j \in 1 .. Len(collection) : collection[i].id = collection[j].id => i = j
    /\ \A i \in 1 .. Len(collection) :
          collection[i].embedding = get_gemini_embedding(collection[i].text)

C5_Witness ==
    /\ IngestReturned
    /\ last.outcome = "ok"
    /\ Len(last.documents) = 2
    /\ last.documents[1].id = last.documents[2].id
    /\ last.documents[1].text # last.documents[2].text
    /\ \E i \in 1 .. Len(last.before), j \in 1 .. Len(collection) :
          /\ last.before[i].id = collection[j].id
          /\ last.before[i].text # collection[j].text
          /\ last.before[i].embedding # collection[j].embedding

\* C6: calling add_documents again with the same chunks, or ingesting the
\* same documents again, leaves the store in the state reached after the
\* first call.
C6_UpsertIdempotent ==
    (IngestReturned /\ last.outcome = "ok") =>
        /\ add_documents(collection, last.processed, 0).collection = collection
        /\ IngestDocuments(collection, last.documents, 0, 0).collection = collection

C6_Witness ==
    /\ IngestReturned
    /\ last.outcome = "ok"
    /\ Len(last.processed) >= 3
    /\ last.before # <<>>
    /\ last.before # collection
    /\ add_documents(collection, last.processed, 0).collection = collection

\* C7: query_documents(question, n_results = k) returns a flat list of exactly
\* min(k, number of chunks in the store) chunk texts; the empty list when the
\* store is empty.
C7_TopKBound ==
    QueryReturned =>
        /\ Len(last.relevant_chunks) = Min(last.n_results, Len(collection))
        /\ \A n \in 1 .. Len(last.relevant_chunks) :
              \E i \in 1 .. Len(collection) : last.relevant_chunks[n] = collection[i].text

C7_Witness ==
    /\ QueryReturned
    /\ Len(collection) = 2
    /\ last.n_results = 3
    /\ Len(last.relevant_chunks) = 2

\* C8: the n-th chunk (1-based) of document d gets the id d.id + "_chunk" + n
\* and the n-th window of d's text; ids are distinct within a document, and
\* the output keeps document order, then chunk order.
C8_ChunkIds ==
    (IngestReturned /\ last.outcome # "embedding_error") =>
        /\ Len(last.processed) = ChunksBefore(last.documents, Len(last.documents) + 1)
        /\ \A k \in 1 .. Len(last.documents) : \A n \in 1 .. ChunkCount(last.documents[k]) :
              LET chunk == last.processed[ChunksBefore(last.documents, k) + n]
              IN  /\ chunk.id = last.documents[k].id \o "_chunk" \o ToString(n)
                  /\ chunk.text = Window(last.documents[k].text, n)
                  /\ \A m \in 1 .. ChunkCount(last.documents[k]) :
                        last.processed[ChunksBefore(last.documents, k) + m].id = chunk.id => m = n

C8_Witness ==
    /\ IngestReturned
    /\ last.outcome = "ok"
    /\ Len(last.documents) = 2
    /\ last.documents[1].id # last.documents[2].id
    /\ Len(last.processed) = 4
    /\ last.processed[3].id = "d1_chunk3"
    /\ last.processed[4].id = "d2_chunk1"

\* C12: split_text on the empty string returns the empty list, so a document
\* with empty text yields no chunk and no embedding call.
C12_EmptyTextNoChunk ==
    /\ split_text("", DefaultChunkSize, DefaultChunkOverlap) = <<>>
    /\ IngestReturned =>
          /\ (\A k \in 1 .. Len(last.documents) : last.documents[k].text = "") =>
                /\ last.outcome = "ok"
                /\ last.embed_calls = 0
                /\ last.processed = <<>>
                /\ collection = last.before
          /\ last.embed_calls <= ChunksBefore(last.documents, Len(last.documents) + 1)
          /\ last.outcome # "embedding_error" =>
                \A n \in 1 .. Len(last.processed) : last.processed[n].text # ""

C12_Witness ==
    /\ IngestReturned
    /\ Len(last.documents) = 2
    /\ last.documents[1].text = ""
    /\ last.documents[2].text = ""
    /\ last.embed_calls = 0
    /\ last.processed = <<>>
    /\ last.before # <<>>

AskReturned == last.op = "ask" /\ last.result.outcome = "ok"

Texts(coll) == {coll[i].text : i \in 1 .. Len(coll)}

Ids(coll) == {coll[i].id : i \in 1 .. Len(coll)}

Elements(list) == {list[n] : n \in 1 .. Len(list)}

QuestionDistance(question, t) ==
    Distance(get_gemini_embedding(t), get_gemini_embedding(question))

\* C14: ask_question(question, k) makes one embedding call for the question,
\* then one store query for the top k chunks, then one generation call on
\* those chunks, and returns the answer with the query result unchanged, in
\* ranked order; k is 2 when the argument is left out.
C14_AskQuestionPipeline ==
    AskReturned =>
        LET r == last.result
            k == IF last.n_results = 0 THEN 2 ELSE last.n_results
        IN  /\ r.calls = <<"embed_content", "query", "generate_content">>
            /\ r.k = k
            /\ Len(r.queried) = Min(k, Len(collection))
            /\ r.generated_on = r.queried
            /\ r.relevant_chunks = r.queried
            /\ \A n \in 1 .. Len(r.relevant_chunks) - 1 :
                  QuestionDistance(last.question, r.relevant_chunks[n])
                      <= QuestionDistance(last.question, r.relevant_chunks[n + 1])
            /\ r.answer = "answer " \o ToString(Len(BuildPrompt(last.question, r.queried)))

C14_Witness ==
    /\ AskReturned
    /\ last.n_results = 0
    /\ Len(collection) >= 3
    /\ Len(last.result.relevant_chunks) = 2
    /\ QuestionDistance(last.question, last.result.relevant_chunks[1])
           < QuestionDistance(last.question, last.result.relevant_chunks[2])

\* The documents of the batch that no later document of the batch shares its
\* id with.
LastOfItsId(documents, k) ==
    \A m \in k + 1 .. Len(documents) : documents[m].id # documents[k].id

\* C15: after a document is ingested every chunk of it is in the store; a
\* query with k at least the number of stored chunks returns every stored chunk
\* text; a one-chunk document ingested into an empty store is the whole store,
\* and ask_question with n_results = 1 then returns exactly its text.
C15_RoundTripRetrieval ==
    /\ (IngestReturned /\ last.outcome = "ok") =>
          /\ \A k \in 1 .. Len(last.documents) : \A n \in 1 .. ChunkCount(last.documents[k]) :
                \E i \in 1 .. Len(collection) :
                    /\ collection[i].id = last.documents[k].id \o "_chunk" \o ToString(n)
                    /\ LastOfItsId(last.documents, k) =>
                          collection[i].text = Window(last.documents[k].text, n)
          /\ (last.before = <<>> /\ Len(last.documents) = 1 /\ ChunkCount(last.documents[1]) = 1) =>
                Texts(collection) = {last.documents[1].text}
    /\ (QueryReturned /\ last.n_results >= Len(collection)) =>
          Texts(collection) \subseteq Elements(last.relevant_chunks)
    /\ (AskReturned /\ last.result.k >= Len(collection)) =>
          Texts(collection) \subseteq Elements(last.result.relevant_chunks)
    /\ (AskReturned /\ last.n_results = 1 /\ Len(collection) = 1) =>
          last.result.relevant_chunks = <<collection[1].text>>

C15_Witness ==
    /\ AskReturned
    /\ last.n_results = 1
    /\ Len(collection) = 1
    /\ collection[1].id = "d2_chunk1"
    /\ last.result.relevant_chunks = <<MakeText(5, 2)>>

C15_WitnessIngest ==
    /\ IngestReturned
    /\ last.outcome = "ok"
    /\ last.before = <<>>
    /\ Len(last.documents) = 1
    /\ Len(collection) = 1
    /\ collection[1].text = last.documents[1].text

\* C17: constructing a DocumentRetriever attaches to the persisted collection
\* and leaves its contents as they were; chunks upserted earlier are visible
\* to queries through a retriever constructed later.
C17_ConstructionAttaches ==
    /\ last.op = "construct" => collection = last.before
    /\ IngestReturned => Ids(last.before) \subseteq Ids(collection)
    /\ AskReturned =>
          /\ Len(last.result.relevant_chunks) = Min(last.result.k, Len(collection))
          /\ Elements(last.result.relevant_chunks) \subseteq Texts(collection)

C17_Witness ==
    /\ last.op = "construct"
    /\ Len(last.before) >= 3
    /\ collection = last.before

C17_WitnessVisible ==
    /\ AskReturned
    /\ Len(collection) >= 2
    /\ Len(last.result.relevant_chunks) >= 2

\* C18: no ingestion, query, retriever construction, selection or clearing
\* of the active source removes a chunk: the set of stored chunk ids never
\* shrinks.
C18_StoreNeverShrinks == [][Ids(collection) \subseteq Ids(collection')]_vars

C18_Witness ==
    /\ last.op = "clear"
    /\ last.source = "d1"
    /\ Len(last.before) >= 3
    /\ Ids(collection) = Ids(last.before)

\* C19: when the embedding provider fails for a chunk in
\* process_documents_for_embedding, or for the question in query_documents,
\* the operation fails with an EmbeddingProviderError carrying the provider's
\* exception as its cause, makes no further provider call, persists no chunk
\* and produces no query result.
C19_EmbeddingProviderError ==
    ((IngestReturned \/ last.op = "query") /\ last.outcome = "embedding_error") =>
        /\ last.raised.type = "EmbeddingProviderError"
        /\ last.raised.cause \in ProviderExceptions
        /\ IngestReturned => (last.upsert_calls = 0 /\ collection = last.before)
        /\ last.op = "query" => (last.embed_calls = 1 /\ "relevant_chunks" \notin DOMAIN last)

\* C16: however add_documents and query_documents calls of different
\* retriever instances interleave, the store holds for each chunk id exactly
\* the record of the last completed upsert of that id, and a query that begins
\* after an add_documents call has returned is evaluated on a store that
\* contains every chunk id of that call.
C16_LastWriterWins ==
    /\ \A i, j \in 1 .. Len(collection) : collection[i].id = collection[j].id => i = j
    /\ {collection[i] : i \in 1 .. Len(collection)} = lastWrite
    /\ reader.pc = "returned" =>
          /\ reader.returned_before \subseteq Ids(reader.evaluated_on)
          /\ Elements(reader.relevant_chunks) \subseteq Texts(reader.evaluated_on)

C16_Witness ==
    /\ reader.pc = "returned"
    /\ reader.returned_before = {"d1_chunk1", "d1_chunk2"}
    /\ \E w \in Writers : writers[w].pc = "adding" /\ writers[w].i = 2
    /\ \E i \in 1 .. Len(collection) : collection[i].text = "c"
    /\ \E i \in 1 .. Len(collection) : collection[i].text = "b"

\* C20: add_documents on a sequence in which some chunk has no embedding
\* fails with MissingEmbeddingError, a StorageError, and is not retried.
C20_MissingEmbeddingError ==
    \A w \in Writers :
        /\ writers[w].pc = "returned" =>
              \A n \in 1 .. Len(writers[w].documents) :
                  "embedding" \in DOMAIN writers[w].documents[n]
        /\ writers[w].pc = "raised" => writers[w].raised.type = "MissingEmbeddingError"

\* C21: when the embedding of the question, the store query or the generation
\* call fails during ask_question, the failure leaves ask_question at that
\* call: no later call is made, nothing is displayed, and neither an answer nor
\* sources are returned.
C21_AskFailurePropagates ==
    (last.op = "ask" /\ last.fail # "none") =>
        /\ last.result.outcome # "ok"
        /\ last.result.raised = last.fail
        /\ last.result.calls[Len(last.result.calls)] = last.fail
        /\ last.result.displayed = <<>>
        /\ "answer" \notin DOMAIN last.result
        /\ "relevant_chunks" \notin DOMAIN last.result

C21_Witness ==
    /\ last.op = "ask"
    /\ last.fail = "generate_content"
    /\ Len(collection) >= 2
    /\ last.result.displayed = <<>>

RECURSIVE OffsetOf(_, _)
\* Where chunk number n starts in the context joined with blank lines.
OffsetOf(parts, n) ==
    IF n <= 1 THEN 0 ELSE OffsetOf(parts, n - 1) + Len(parts[n - 1]) + 2

IsWhitespace(s) == \A n \in 1 .. Len(s) : SubSeq(s, n, n) \in {" ", "\n", "\t", "\r"}

\* C22: the prompt of generate_response holds the chunks in the given order,
\* each whole, separated by blank lines, then the question; one generation
\* call is made and the answer is its text without the surrounding whitespace.
C22_GenerateResponse ==
    AskReturned =>
        LET r == last.result
            parts == r.generated_on
            base == Len(PromptInstructions) + Len("\n\nContext:\n")
            contextLen == IF parts = <<>> THEN 0
                          ELSE OffsetOf(parts, Len(parts)) + Len(parts[Len(parts)])
        IN  /\ Cardinality({n \in 1 .. Len(r.calls) : r.calls[n] = "generate_content"}) = 1
            /\ SubSeq(r.prompt, 1, base) = PromptInstructions \o "\n\nContext:\n"
            /\ \A n \in 1 .. Len(parts) :
                  SubSeq(r.prompt, base + OffsetOf(parts, n) + 1,
                         base + OffsetOf(parts, n) + Len(parts[n])) = parts[n]
            /\ \A n \in 1 .. Len(parts) - 1 :
                  SubSeq(r.prompt, base + OffsetOf(parts, n + 1) - 1,
                         base + OffsetOf(parts, n + 1)) = "\n\n"
            /\ SubSeq(r.prompt, base + contextLen + 1, Len(r.prompt))
                  = "\n\nQuestion:\n" \o last.question
            /\ \E i \in 1 .. Len(r.response) + 1 : \E j \in 0 .. Len(r.response) :
                  /\ SubSeq(r.response, i, j) = r.answer
                  /\ IsWhitespace(SubSeq(r.response, 1, i - 1))
                  /\ IsWhitespace(SubSeq(r.response, j + 1, Len(r.response)))
            /\ r.answer # "" =>
                  /\ ~IsWhitespace(SubSeq(r.answer, 1, 1))
                  /\ ~IsWhitespace(SubSeq(r.answer, Len(r.answer), Len(r.answer)))

C22_Witness ==
    /\ AskReturned
    /\ Len(last.result.generated_on) = 3
    /\ last.result.response # last.result.answer
    /\ Len(last.result.prompt) > 2000

\* C23: every embedding call for a chunk to be stored uses the document
\* task type, and every embedding call for a question uses the document task
\* type or the query task type.
C23_ComparableTaskTypes ==
    /\ IngestReturned =>
          /\ Len(last.task_types) = last.embed_calls
          /\ \A n \in 1 .. Len(last.task_types) : last.task_types[n] = "RETRIEVAL_DOCUMENT"
    /\ last.op = "query" => last.task_type \in {"RETRIEVAL_DOCUMENT", "RETRIEVAL_QUERY"}

C23_Witness ==
    /\ QueryReturned
    /\ Len(collection) >= 3
    /\ last.task_type = "RETRIEVAL_DOCUMENT"
    /\ Len(last.relevant_chunks) >= 2

\* C24: after a source S was selected with success, every chunk the session
\* retriever returns belongs to S: it is the text of a stored chunk with an id
\* S.id + "_chunk" + n.
C24_ChunksOfActiveSource ==
    (last.op = "chat" /\ last.outcome = "ok" /\ active_source # "none") =>
        \A n \in 1 .. Len(last.relevant_chunks) :
            \E i \in 1 .. Len(collection) :
                /\ collection[i].text = last.relevant_chunks[n]
                /\ SubSeq(collection[i].id, 1, Len(ChunkPrefix(active_source)))
                       = ChunkPrefix(active_source)

\* C25: once delete_knowledge_source or delete_all_knowledge_sources has
\* returned True, no query returns a chunk ingested from a deleted source.
C25_DeletedContentIsGone ==
    (last.op = "chat" /\ last.outcome = "ok") =>
        \A n \in 1 .. Len(last.relevant_chunks) :
            \A i \in 1 .. Len(collection) :
                collection[i].text = last.relevant_chunks[n] =>
                    \A id \in deleted :
                        SubSeq(collection[i].id, 1, Len(ChunkPrefix(id))) # ChunkPrefix(id)

\* C26: after a document is ingested again with a changed text, the stored
\* chunks whose id starts with its id + "_chunk" are exactly the chunks of the
\* new text.
C26_ReingestReplacesChunks ==
    (IngestReturned /\ last.outcome = "ok") =>
        \A k \in 1 .. Len(last.documents) :
            LastOfItsId(last.documents, k) =>
                {collection[i].id : i \in {j \in 1 .. Len(collection) :
                    SubSeq(collection[j].id, 1, Len(ChunkPrefix(last.documents[k].id)))
                        = ChunkPrefix(last.documents[k].id)}}
                  = {last.documents[k].id \o "_chunk" \o ToString(n) :
                        n \in 1 .. ChunkCount(last.documents[k])}

\* C30: between script runs st.session_state.retriever is set exactly when
\* st.session_state.active_source is set.
C30_RetrieverIffActiveSource ==
    (retriever # "none") <=> (active_source # "none")

\* C29: scan_knowledge_sources(force_refresh=True) rescans and returns the
\* sources that are in the collections index now, whatever the two caches
\* hold; a collection created just before the call is in the list.
C29_ForcedRefreshRescans ==
    (last.op \in {"scan", "create", "delete_collection"} /\ last.force_refresh) =>
        /\ last.result = collections_index
        /\ last.op = "create" => last.created \in last.result

NoSpace(s) == \A n \in 1 .. Len(s) : SubSeq(s, n, n) # " "

IsPrefix(a, b) == Len(a) <= Len(b) /\ a = SubSeq(b, 1, Len(a))

SentinelPut(t) == t <= Len(producers) /\ producers[t].pc # "put"

\* C27: the generator yields the space-separated words of the full answer in
\* order, each followed by one space, and ends; the thread always gets to put
\* None after the last word, and a generator being written never waits
\* forever.
C27_StreamYieldsWords ==
    /\ [](\A t \in 1 .. Len(generators) :
            /\ \A n \in 1 .. Len(generators[t].yielded) :
                  LET w == generators[t].yielded[n]
                  IN  /\ w # ""
                      /\ SubSeq(w, Len(w), Len(w)) = " "
                      /\ NoSpace(SubSeq(w, 1, Len(w) - 1))
            /\ IsPrefix(Join(generators[t].yielded, ""), producers[t].full_answer \o " ")
            /\ generators[t].pc = "done" =>
                  Join(generators[t].yielded, "") = producers[t].full_answer \o " "
            /\ SentinelPut(t) =>
                  /\ producers[t].put[Len(producers[t].put)] = <<>>
                  /\ \A n \in 1 .. Len(producers[t].put) - 1 : producers[t].put[n] # <<>>
                  /\ Len(producers[t].put) = Len(producers[t].words) + 1)
    /\ \A t \in 1 .. MaxTurns :
          (t <= Len(producers) /\ producers[t].pc = "put") ~> SentinelPut(t)
    /\ \A t \in 1 .. MaxTurns :
          (t <= Len(generators) /\ generators[t].pc = "writing")
              ~> (t <= Len(generators) /\ generators[t].pc \in {"done", "abandoned"})

C27_Witness ==
    /\ Len(generators) = 1
    /\ generators[1].pc = "done"
    /\ generators[1].yielded = <<"a ", " ", "b ">>
    /\ producers[1].pc = "add_message"

\* C28: however the threads and later chat submissions interleave, each user
\* question in st.session_state.messages is immediately followed by the
\* assistant answer to it, and no later question comes before that answer.
C28_MessagesOrderedByTurn ==
    \A n \in 1 .. Len(messages) - 1 :
        messages[n].role = "user" =>
            /\ messages[n + 1].role = "assistant"
            /\ messages[n + 1].turn = messages[n].turn

====
